---- MODULE Spec2Model ----
(***************************************************************************)
(* SimulationSession of move-harness: the session lifecycle, the set of    *)
(* tracked build directories and the directories on disk, under every      *)
(* interleaving of the public operations with the completion of the        *)
(* subprocesses they await.                                                *)
(*                                                                         *)
(* The repository carries the session twice: the TypeScript source         *)
(* (src/core/session.ts) and the compiled build (dist/core/session.js).    *)
(* They differ in the failure paths of compile and publish (the build has  *)
(* cleanBuildDir, the source does not); `artifact` says which one runs.    *)
(***************************************************************************)
EXTENDS Naturals, FiniteSets, Sequences, TLC

\* ---------------------------------------------------------------- bounds
Sessions == {"s1", "s2"}
PackageDirs == {"pkg"}
\* "none": the outputDir option is absent
OutputDirs == {"none", "out"}
\* calls of one session that may await a subprocess at the same time
MaxInFlight == 1
\* the configured timeout of a command, in units of time
TimeoutTicks == 3

Artifacts == {"src", "dist"}

\* ---------------------------------------------------------------- paths
sessionPathOf(s) == <<"session", s>>

\* a faulty resolution that ignores outputDir
resolveBuildDir_default(packageDir, outputDir) == <<"build", packageDir>>

\* path.resolve(outputDir ?? path.join(packageDir, "build"))
resolveBuildDir(packageDir, outputDir) ==
    IF outputDir = "none" THEN <<"build", packageDir>> ELSE <<"out", outputDir>>

BuildPaths == {resolveBuildDir(p, o) : p \in PackageDirs, o \in OutputDirs}

\* ---------------------------------------------------------------- subprocess
\* what one run of the external binary hands back to executeAptosCli
ExecResults == [exitCode : {0, 1}, stdout : {"result", "error", "text"}, stderr : {"", "diag"}]

\* executeAptosCli rejects with CliExecutionError when execFile reports an error
execRejects(r) == r.exitCode # 0

\* parseJsonOutput throws CliParseError when neither attempt parses
parseJsonOutputThrows(stdout) == stdout = "text"

GatedOps == {"compile", "publish", "compileAndPublish", "run", "view",
             "runScript", "fund", "viewResource"}
PlainOps == {"run", "view", "runScript", "fund", "viewResource"}

VARIABLES
    artifact,    \* which copy of the session code runs
    handle,      \* per session: what the caller of create() holds (session.ts 146-151)
    forked,      \* per session: `aptos move sim init` has succeeded (session.ts 157-182)
    persist,     \* per session: this.persist (session.ts 102)
    destroyed,   \* per session: this.destroyed (session.ts 105)
    buildDirs,   \* per session: this.buildDirs (session.ts 106)
    disk,        \* the directories that exist, as fs.existsSync sees them
    pending,     \* per session: the calls awaiting their subprocess (this.exec)
    last,        \* the call that settled last: what its caller got
    reply        \* one call followed to its end: its input, and what it threw or returned

vars == <<artifact, handle, forked, persist, destroyed, buildDirs, disk, pending, last,
          reply>>

Call(op, p, o, step, n) ==
    [op |-> op, packageDir |-> p, outputDir |-> o, step |-> step, spawned |-> n]

\* what a call did to the disk: directories removed, tracked directories found
\* missing and skipped, and whether destroy returned at its first line
NoFs == [removed |-> {}, skipped |-> {}, noop |-> FALSE]

\* the record of a settled call; tick tells two equal calls in a row apart
Event(s, op, status, n, fs) ==
    [sess |-> s, op |-> op, status |-> status, spawned |-> n,
     removed |-> fs.removed, skipped |-> fs.skipped, noop |-> fs.noop,
     tick |-> ~last.tick]

Init ==
    /\ artifact \in Artifacts
    /\ handle = [s \in Sessions |-> "none"]
    /\ forked = [s \in Sessions |-> FALSE]
    /\ persist = [s \in Sessions |-> FALSE]
    /\ destroyed = [s \in Sessions |-> FALSE]
    /\ buildDirs = [s \in Sessions |-> {}]
    /\ disk = {}
    /\ pending = [s \in Sessions |-> {}]
    /\ last = [sess |-> "none", op |-> "none", status |-> "none", spawned |-> 0,
               removed |-> {}, skipped |-> {}, noop |-> FALSE, tick |-> FALSE]
    /\ reply = [op |-> "none"]

\* ---------------------------------------------------------------- helpers
\* a faulty assertAlive that never throws
assertAliveThrows_never(s) == FALSE

\* assertAlive throws SessionDestroyedError
assertAliveThrows(s) == destroyed[s]

\* the session object is in the caller's hands
held(s) == handle[s] = "returned"

\* this.exec: one subprocess is started and awaited
exec(s, c) == pending' = [pending EXCEPT ![s] = @ \cup {c}]

settled(s, c) == pending' = [pending EXCEPT ![s] = @ \ {c}]

\* ---------------------------------------------------------------- create
\* create: resolveConfig, the constructor, and init up to its await
create(s, p) ==
    /\ handle[s] = "none"
    /\ handle' = [handle EXCEPT ![s] = "pending"]
    /\ persist' = [persist EXCEPT ![s] = p]
    /\ exec(s, Call("create", "none", "none", "init", 1))
    /\ UNCHANGED <<artifact, forked, destroyed, buildDirs, disk, last, reply>>

\* a faulty init whose catch block swallows the error
initStatus_swallowed(r) == "ok"

\* init's outcome after the await: the catch block rethrows
initStatus(r) == IF execRejects(r) THEN "CliExecutionError" ELSE "ok"

\* a faulty create that returns the session whatever init did
createReturnsSession_always(status) == TRUE

\* create returns the session only when init did not throw
createReturnsSession(status) == status = "ok"

createSettles(s, r, partial) ==
    LET c == Call("create", "none", "none", "init", 1)
        status == initStatus(r)
    IN  /\ c \in pending[s]
        /\ settled(s, c)
        /\ forked' = [forked EXCEPT ![s] = ~execRejects(r)]
        /\ disk' = IF ~execRejects(r) \/ partial
                   THEN disk \cup {sessionPathOf(s)} ELSE disk
        /\ handle' = [handle EXCEPT ![s] =
                        IF createReturnsSession(status) THEN "returned" ELSE "rejected"]
        /\ last' = Event(s, "create", status, 1, NoFs)
        /\ UNCHANGED <<artifact, persist, destroyed, buildDirs>>

\* ---------------------------------------------------------------- destroy
\* a faulty destroy without its early return
destroyReturnsEarly_never(s) == FALSE

\* `if (this.destroyed) return;`
destroyReturnsEarly(s) == destroyed[s]

\* a faulty destroy that clears the set without removing anything
buildDirsRemovedByDestroy_none(s) == {}

\* the loop over this.buildDirs: existsSync, then rmSync
buildDirsRemovedByDestroy(s) == buildDirs[s] \cap disk

\* a faulty destroy that ignores persist
removesSessionDir_always(s) == TRUE

\* `!this.persist && fs.existsSync(this.sessionPath)`
removesSessionDir(s) == ~persist[s]

\* a faulty removal without the existsSync guard and without `force`
removeThrows_missing(dir) == dir \notin disk

\* `if (fs.existsSync(dir)) fs.rmSync(dir, {recursive: true, force: true})`:
\* a directory that is not there is passed over
removeThrows(dir) == FALSE

\* what destroy goes through: the tracked directories, then the session directory
destroyTargets(s) ==
    buildDirs[s] \cup (IF removesSessionDir(s) THEN {sessionPathOf(s)} ELSE {})

destroyStatus(s) == IF \E dir \in destroyTargets(s) : removeThrows(dir) THEN "ENOENT" ELSE "ok"

\* destroy has no await: it runs to its end in one step
destroy(s) ==
    /\ held(s)
    /\ IF destroyReturnsEarly(s)
       THEN /\ last' = Event(s, "destroy", "ok", 0, [NoFs EXCEPT !.noop = TRUE])
            /\ UNCHANGED <<destroyed, buildDirs, disk>>
       ELSE LET gone == buildDirsRemovedByDestroy(s) \cup
                        (IF removesSessionDir(s) THEN {sessionPathOf(s)} \cap disk ELSE {})
            IN  /\ destroyed' = [destroyed EXCEPT ![s] = TRUE]
                /\ disk' = disk \ gone
                /\ buildDirs' = [buildDirs EXCEPT ![s] = {}]
                /\ last' = Event(s, "destroy", destroyStatus(s), 0,
                                 [removed |-> gone, skipped |-> destroyTargets(s) \ disk,
                                  noop |-> FALSE])
    /\ UNCHANGED <<artifact, handle, forked, persist, pending, reply>>

\* ---------------------------------------------------------------- generateAccount
\* generateAccount is synchronous, starts no subprocess and has no assertAlive
generateAccount(s) ==
    /\ held(s)
    /\ last' = Event(s, "generateAccount", "ok", 0, NoFs)
    /\ UNCHANGED <<artifact, handle, forked, persist, destroyed, buildDirs, disk, pending,
                   reply>>

\* ---------------------------------------------------------------- gated operations
\* the part of a gated operation before its await: assertAlive, then this.exec
begin(s, op, p, o, step) ==
    /\ held(s)
    /\ IF assertAliveThrows(s)
       THEN /\ last' = Event(s, op, "SessionDestroyedError", 0, NoFs)
            /\ UNCHANGED pending
       ELSE /\ Cardinality(pending[s]) < MaxInFlight
            /\ exec(s, Call(op, p, o, step, 1))
            /\ UNCHANGED last
    /\ UNCHANGED <<artifact, handle, forked, persist, destroyed, buildDirs, disk, reply>>

compile(s, p, o) == begin(s, "compile", p, o, "compile")
publish(s, p) == begin(s, "publish", p, "none", "publish")
\* compileAndPublish awaits this.compile(options) first
compileAndPublish(s, p, o) == begin(s, "compileAndPublish", p, o, "compile")
run(s) == begin(s, "run", "none", "none", "run")
view(s) == begin(s, "view", "none", "none", "view")
runScript(s) == begin(s, "runScript", "none", "none", "runScript")
fund(s) == begin(s, "fund", "none", "none", "fund")
viewResource(s) == begin(s, "viewResource", "none", "none", "viewResource")

\* cleanBuildDir (compiled build only): rmSync if it exists, then buildDirs.delete
cleanBuildDir(s, packageDir, outputDir, dsk, dirs) ==
    LET buildDir == resolveBuildDir(packageDir, outputDir)
    IN  [disk |-> dsk \ {buildDir}, buildDirs |-> dirs \ {buildDir}]

\* the catch block of compile / publish: the compiled build cleans, the source does not
failureCleanup(s, packageDir, outputDir, dsk, dirs) ==
    IF artifact = "dist"
    THEN cleanBuildDir(s, packageDir, outputDir, dsk, dirs)
    ELSE [disk |-> dsk, buildDirs |-> dirs]

\* how the try block of compile ends
compileStatus(r) ==
    IF execRejects(r)
    THEN IF r.stderr # "" THEN "CompilationError" ELSE "CliExecutionError"
    ELSE IF parseJsonOutputThrows(r.stdout) THEN "CliParseError" ELSE "ok"

\* a faulty compile that goes on to publish as compileAndPublish does
callsPublishAfterCompile_any(op) == TRUE

\* compileAndPublish alone goes on to `this.publish(options)`
callsPublishAfterCompile(op) == op = "compileAndPublish"

\* a faulty compileAndPublish that goes on whatever compile did
awaitCompileThrows_never(status) == FALSE

\* `await this.compile(options)` throws what compile threw
awaitCompileThrows(status) == status # "ok"

\* the compile subprocess has exited; `partial`: a failed run left its output directory
compileSettles(s, c, r, partial) ==
    LET buildDir == resolveBuildDir(c.packageDir, c.outputDir)
        status == compileStatus(r)
        written == IF ~execRejects(r) \/ partial THEN disk \cup {buildDir} ELSE disk
        after == IF status = "ok"
                 THEN [disk |-> written, buildDirs |-> buildDirs[s] \cup {buildDir}]
                 ELSE failureCleanup(s, c.packageDir, c.outputDir, written, buildDirs[s])
    IN  /\ c \in pending[s]
        /\ c.step = "compile"
        /\ disk' = after.disk
        /\ buildDirs' = [buildDirs EXCEPT ![s] = after.buildDirs]
        /\ IF callsPublishAfterCompile(c.op) /\ ~awaitCompileThrows(status)
           THEN \* `return this.publish(options)`: assertAlive, then the second exec
                IF assertAliveThrows(s)
                THEN /\ settled(s, c)
                     /\ last' = Event(s, c.op, "SessionDestroyedError", c.spawned, NoFs)
                ELSE /\ pending' = [pending EXCEPT ![s] =
                            (@ \ {c}) \cup {Call(c.op, c.packageDir, c.outputDir,
                                                 "publish", c.spawned + 1)}]
                     /\ UNCHANGED last
           ELSE /\ settled(s, c)
                /\ last' = Event(s, c.op, status, c.spawned, NoFs)
        /\ UNCHANGED <<artifact, handle, forked, persist, destroyed>>

\* a faulty publish that cleans up on every path
publishCleansUp_always(r) == TRUE

\* publish reaches its catch block only when exec rejects
publishCleansUp(r) == execRejects(r)

\* the publish subprocess has exited; unparseable stdout is swallowed
publishSettles(s, c, r) ==
    LET after == IF publishCleansUp(r)
                 THEN failureCleanup(s, c.packageDir, "none", disk, buildDirs[s])
                 ELSE [disk |-> disk, buildDirs |-> buildDirs[s]]
    IN  /\ c \in pending[s]
        /\ c.step = "publish"
        /\ settled(s, c)
        /\ disk' = after.disk
        /\ buildDirs' = [buildDirs EXCEPT ![s] = after.buildDirs]
        /\ last' = Event(s, c.op, IF execRejects(r) THEN "CliExecutionError" ELSE "ok",
                         c.spawned, NoFs)
        /\ UNCHANGED <<artifact, handle, forked, persist, destroyed>>

\* run, runScript: parseRunResult catches; view, viewResource: extractResult throws;
\* fund does not parse
plainStatus(op, r) ==
    IF execRejects(r) THEN "CliExecutionError"
    ELSE IF op \in {"view", "viewResource"} /\ parseJsonOutputThrows(r.stdout)
         THEN "CliParseError" ELSE "ok"

\* a faulty settlement that forgets the tracked directories
plainSettles_untracks(s, c, r) ==
    /\ c \in pending[s]
    /\ c.op \in PlainOps
    /\ settled(s, c)
    /\ last' = Event(s, c.op, plainStatus(c.op, r), c.spawned, NoFs)
    /\ buildDirs' = [buildDirs EXCEPT ![s] = {}]
    /\ UNCHANGED <<artifact, handle, forked, persist, destroyed, disk>>

plainSettles(s, c, r) ==
    /\ c \in pending[s]
    /\ c.op \in PlainOps
    /\ settled(s, c)
    /\ last' = Event(s, c.op, plainStatus(c.op, r), c.spawned, NoFs)
    /\ UNCHANGED <<artifact, handle, forked, persist, destroyed, buildDirs, disk>>

\* the operations that touch the lifecycle flag, the tracked set or the disk
Lifecycle(S) ==
    \/ \E s \in S, p \in BOOLEAN : create(s, p)
    \/ \E s \in S, r \in ExecResults, partial \in BOOLEAN :
          createSettles(s, r, partial) /\ UNCHANGED reply
    \/ \E s \in S : destroy(s)
    \/ \E s \in S, p \in PackageDirs, o \in OutputDirs : compile(s, p, o)
    \/ \E s \in S, p \in PackageDirs : publish(s, p)
    \/ \E s \in S, p \in PackageDirs, o \in OutputDirs : compileAndPublish(s, p, o)
    \/ \E s \in S, r \in ExecResults, partial \in BOOLEAN :
          \E c \in pending[s] : compileSettles(s, c, r, partial) /\ UNCHANGED reply
    \/ \E s \in S, r \in ExecResults :
          \E c \in pending[s] : publishSettles(s, c, r) /\ UNCHANGED reply

\* the operations that only talk to the fork
Plain(S) ==
    \/ \E s \in S : generateAccount(s)
    \/ \E s \in S : run(s)
    \/ \E s \in S : view(s)
    \/ \E s \in S : runScript(s)
    \/ \E s \in S : fund(s)
    \/ \E s \in S : viewResource(s)
    \/ \E s \in S, r \in ExecResults :
          \E c \in pending[s] : plainSettles(s, c, r) /\ UNCHANGED reply

\* one session, every operation
Next == Lifecycle({"s1"}) \/ Plain({"s1"})

Spec == Init /\ [][Next]_vars

\* two sessions of the default configuration on one disk, and the operations
\* that own directories
NextShared ==
    \/ \E s \in Sessions : create(s, FALSE)
    \/ \E s \in Sessions, r \in ExecResults, partial \in BOOLEAN :
          createSettles(s, r, partial) /\ UNCHANGED reply
    \/ \E s \in Sessions : destroy(s)
    \/ \E s \in Sessions, p \in PackageDirs, o \in OutputDirs : compile(s, p, o)
    \/ \E s \in Sessions, p \in PackageDirs : publish(s, p)
    \/ \E s \in Sessions, r \in ExecResults, partial \in BOOLEAN :
          \E c \in pending[s] : compileSettles(s, c, r, partial) /\ UNCHANGED reply
    \/ \E s \in Sessions, r \in ExecResults :
          \E c \in pending[s] : publishSettles(s, c, r) /\ UNCHANGED reply

SpecShared == Init /\ [][NextShared]_vars

\* something outside the harness removes a directory
removedOutside(dir) ==
    /\ dir \in disk
    /\ disk' = disk \ {dir}
    /\ UNCHANGED <<artifact, handle, forked, persist, destroyed, buildDirs, pending, last,
                   reply>>

\* one session on a disk that others write to: create, compile, destroy
NextTeardown ==
    \/ \E p \in BOOLEAN : create("s1", p)
    \/ \E r \in ExecResults, partial \in BOOLEAN :
          createSettles("s1", r, partial) /\ UNCHANGED reply
    \/ destroy("s1")
    \/ \E p \in PackageDirs, o \in OutputDirs : compile("s1", p, o)
    \/ \E r \in ExecResults, partial \in BOOLEAN :
          \E c \in pending["s1"] : compileSettles("s1", c, r, partial) /\ UNCHANGED reply
    \/ \E dir \in disk : removedOutside(dir)

SpecTeardown == Init /\ [][NextTeardown]_vars

\* ================================================================ replies
\* What a call throws or returns, as a function of what the subprocess printed.
\* ---------------------------------------------------------------- JSON values
\* the values JSON.parse builds, tagged by their JavaScript type
JNull == [t |-> "null"]
JBool(b) == [t |-> "boolean", b |-> b]
JNum(n) == [t |-> "number", n |-> n]
JStr(str) == [t |-> "string", s |-> str]
JArr(items) == [t |-> "array", items |-> items]
JObj(fields) == [t |-> "object", fields |-> fields]

\* a payload that is no JSON text
NotJson == [t |-> "text"]

\* `v?.key`, v being a value or undefined; the empty set is undefined
prop(v, key) ==
    UNION {IF x.t = "object" /\ key \in DOMAIN x.fields THEN {x.fields[key]} ELSE {} :
           x \in v}

\* a key that is absent, or present with one of `values`
Optional(key, values) == {<<>>} \cup {key :> v : v \in values}

\* the Result payload of publish, run and run-script
TxResults ==
    {JObj(a @@ b @@ c @@ d) :
        a \in Optional("success", {JBool(TRUE), JBool(FALSE)}),
        b \in Optional("vm_status", {JStr("ABORTED")}),
        c \in Optional("gas_used", {JNum(567), JStr("1234"), JNull}),
        d \in Optional("transaction_hash", {JStr("0xabc")})}

\* what the binary prints as its payload: `{"Result": ...}`, `{"Error": ...}`,
\* JSON without the envelope, or no JSON at all
Payloads ==
    LET \* the Result payload of compile
        ModuleResults ==
            {JObj(m) : m \in Optional("module_ids", {JArr(<<>>), JArr(<<JStr("0x1::m")>>)})}
        \* the Result payload of view and view-resource
        ViewResults == {JArr(<<JStr("100")>>), JNull}
    IN
    {JObj("Result" :> x) : x \in TxResults \cup ModuleResults \cup ViewResults}
    \cup {JObj("Error" :> JStr("boom")), JArr(<<JStr("100")>>), JNull, NotJson}

\* stdout: the payload, after nothing, a line of log text, or a line of log
\* text that holds a bracket; `ws`: with whitespace around it all
CliOutputs == [ws : BOOLEAN, prefix : {"none", "plain", "bracketed"}, payload : Payloads]

\* what execFile hands to its callback: no error, an error whose code is the
\* exit status 2, or an error whose code is the string ENOENT
Children == [error : {"none", "exit2", "ENOENT"}, stdout : CliOutputs, stderr : {"", "diag"}]

\* ---------------------------------------------------------------- errors
CliExecutionError(command, exitCode, stderr, stdout) ==
    [name |-> "CliExecutionError", command |-> command, exitCode |-> exitCode,
     stderr |-> stderr, stdout |-> stdout]

CliParseError(rawOutput) == [name |-> "CliParseError", rawOutput |-> rawOutput]

CompilationError(diagnostics) == [name |-> "CompilationError", diagnostics |-> diagnostics]

Throws(e) == [thrown |-> {e}, value |-> {}]
Returns(v) == [thrown |-> {}, value |-> {v}]

\* ---------------------------------------------------------------- executor
\* `${binaryPath} ${args.join(" ")}`, up to the subcommand
commandOf(op) ==
    CASE op = "init" -> <<"aptos", "move", "sim", "init">>
      [] op = "compile" -> <<"aptos", "move", "compile">>
      [] op = "publish" -> <<"aptos", "move", "publish">>
      [] op = "run" -> <<"aptos", "move", "run">>
      [] op = "view" -> <<"aptos", "move", "view">>
      [] op = "runScript" -> <<"aptos", "move", "run-script">>
      [] op = "fund" -> <<"aptos", "move", "sim", "fund">>
      [] op = "viewResource" -> <<"aptos", "move", "sim", "view-resource">>

\* error.code when it is a number, else `error.status ?? 1`
exitCodeOf(child) ==
    IF child.error = "none" THEN 0 ELSE IF child.error = "exit2" THEN 2 ELSE 1

executeAptosCli(command, child) ==
    IF child.error # "none"
    THEN Throws(CliExecutionError(command, exitCodeOf(child), child.stderr, child.stdout))
    ELSE Returns([stdout |-> child.stdout, stderr |-> child.stderr, exitCode |-> 0])

\* ---------------------------------------------------------------- parser
trim(stdout) == [stdout EXCEPT !.ws = FALSE]

\* JSON.parse: the text must be one JSON value and nothing else
JSONparse(text) ==
    IF text.prefix = "none" /\ text.payload # NotJson
    THEN Returns(text.payload)
    ELSE Throws([name |-> "SyntaxError"])

\* a faulty search that finds no delimiter
firstDelimiter_none(text) == "none"

\* where the earliest `{` or `[` of the text is: in the log line, at the start
\* of the payload, or nowhere (startIdx = -1)
firstDelimiter(text) ==
    IF text.prefix = "bracketed" THEN "prefix"
    ELSE IF text.payload.t \in {"object", "array"} THEN "payload"
    ELSE "none"

\* a faulty slice that starts at the delimiter of the payload
slice_payload(text, startIdx) == [text EXCEPT !.prefix = "none"]

\* trimmed.slice(startIdx)
slice(text, startIdx) ==
    IF startIdx = "payload" THEN [text EXCEPT !.prefix = "none"] ELSE text

\* a faulty parseJsonOutput whose error carries stdout as it came
parseJsonOutput_untrimmed(stdout) ==
    LET whole == JSONparse(stdout)
        startIdx == firstDelimiter(stdout)
        sliced == JSONparse(slice(stdout, startIdx))
    IN  IF whole.thrown = {} THEN whole
        ELSE IF startIdx # "none" /\ sliced.thrown = {} THEN sliced
        ELSE Throws(CliParseError(stdout))

\* JSON.parse of the trimmed text, then of the text from its first `{` or `[`
parseJsonOutput(stdout) ==
    LET trimmed == trim(stdout)
        whole == JSONparse(trimmed)
        startIdx == firstDelimiter(trimmed)
        sliced == JSONparse(slice(trimmed, startIdx))
    IN  IF whole.thrown = {} THEN whole
        ELSE IF startIdx # "none" /\ sliced.thrown = {} THEN sliced
        ELSE Throws(CliParseError(trimmed))

\* a faulty extractResult that reads .Result of whatever was parsed
extractResult_always(stdout) ==
    LET parsed == parseJsonOutput(stdout)
    IN  [thrown |-> parsed.thrown, value |-> prop(parsed.value, "Result")]

extractResult(stdout) ==
    LET parsed == parseJsonOutput(stdout)
    IN  IF parsed.thrown = {} /\ prop(parsed.value, "Result") # {}
        THEN [thrown |-> {}, value |-> prop(parsed.value, "Result")]
        ELSE parsed

isErrorOutput(stdout) ==
    LET parsed == parseJsonOutput(stdout)
    IN  parsed.thrown = {} /\ prop(parsed.value, "Error") # {}

\* the abstract result the session's handlers branch on
resultOf(child) ==
    [exitCode |-> exitCodeOf(child),
     stdout |-> IF parseJsonOutput(child.stdout).thrown # {} THEN "text"
                ELSE IF isErrorOutput(child.stdout) THEN "error" ELSE "result",
     stderr |-> child.stderr]

\* ---------------------------------------------------------------- what the methods hand back
\* Number(x) of a JSON number or of a string of digits
Number(v) == IF v.t = "number" THEN v.n ELSE IF v.s = "1234" THEN 1234 ELSE 567

\* a faulty conversion that never reports gas_used
gasUsedOf_none(txResult) == {}

\* `txResult?.gas_used != null ? Number(txResult.gas_used) : undefined`
gasUsedOf(txResult) ==
    LET g == prop(txResult, "gas_used")
    IN  IF g \subseteq {JNull} THEN {} ELSE {Number(v) : v \in g}

\* a faulty catch block that throws a new error in place of the one it caught
rethrow_wrapped(err) == Throws([name |-> "Error", message |-> err.name])

\* `catch (err) { ...; throw err; }` around this.exec
rethrow(err) == Throws(err)

\* init: the catch block rethrows err
initReply(s, child) ==
    LET result == executeAptosCli(commandOf("init"), child)
    IN  IF result.thrown # {} THEN rethrow(CHOOSE err \in result.thrown : TRUE) ELSE Returns([session |-> s])

\* a faulty catch block that never wraps
compileRethrows_plain(err) == Throws(err)

\* the catch block of compile: CompilationError when err.stderr is truthy
compileRethrows(err) ==
    IF "stderr" \in DOMAIN err /\ err.stderr # ""
    THEN Throws(CompilationError(err.stderr))
    ELSE Throws(err)

\* compile: the try block and the catch block
compileReply(child, packageDir, outputDir) ==
    LET result == executeAptosCli(commandOf("compile"), child)
        parsed == IF result.thrown # {} THEN result ELSE extractResult(child.stdout)
        ids == prop(parsed.value, "module_ids")
    IN  IF parsed.thrown # {}
        THEN compileRethrows(CHOOSE err \in parsed.thrown : TRUE)
        ELSE Returns([moduleIds |-> IF ids \subseteq {JNull} THEN <<>>
                                    ELSE (CHOOSE v \in ids : TRUE).items,
                      buildDir |-> resolveBuildDir(packageDir, outputDir),
                      raw |-> child.stdout])

\* a faulty publish that reports failure when stdout does not parse
publishSuccessDefault_false == FALSE

\* `let success = true;`
publishSuccessDefault == TRUE

\* publish: exec rethrows; the parse of stdout is inside a try whose catch is empty
publishReply(child) ==
    LET result == executeAptosCli(commandOf("publish"), child)
        parsed == parseJsonOutput(child.stdout)
        txResult == prop(parsed.value, "Result")
    IN  IF result.thrown # {} THEN rethrow(CHOOSE err \in result.thrown : TRUE)
        ELSE IF parsed.thrown # {}
        THEN Returns([success |-> publishSuccessDefault, transactionHash |-> {},
                      gasUsed |-> {}, raw |-> child.stdout])
        ELSE IF isErrorOutput(child.stdout)
        THEN Returns([success |-> FALSE, transactionHash |-> {}, gasUsed |-> {},
                      raw |-> child.stdout])
        ELSE Returns([success |-> IF prop(txResult, "success") = {JBool(FALSE)}
                                  THEN FALSE ELSE publishSuccessDefault,
                      transactionHash |-> prop(txResult, "transaction_hash"),
                      gasUsed |-> gasUsedOf(txResult),
                      raw |-> child.stdout])

\* a faulty parseRunResult that takes success for granted as publish does
runSuccessDefault_true == TRUE

\* `txResult?.success ?? false`, and `success: false` in the catch block
runSuccessDefault == FALSE

\* parseRunResult; the compiled build adds `stderr: stderr || undefined`
parseRunResult(stdout, stderr) ==
    LET parsed == parseJsonOutput(stdout)
        txResult == prop(parsed.value, "Result")
        success == prop(txResult, "success")
        kept == IF artifact = "dist" /\ stderr # "" THEN {stderr} ELSE {}
    IN  IF parsed.thrown # {}
        THEN [success |-> runSuccessDefault, vmStatus |-> {}, gasUsed |-> {},
              raw |-> stdout, stderr |-> kept]
        ELSE [success |-> IF success \subseteq {JNull} THEN runSuccessDefault
                          ELSE (CHOOSE v \in success : TRUE).b,
              vmStatus |-> prop(txResult, "vm_status"),
              gasUsed |-> gasUsedOf(txResult),
              raw |-> stdout, stderr |-> kept]

\* run and runScript: exec rethrows, then parseRunResult
runReply(op, child) ==
    LET result == executeAptosCli(commandOf(op), child)
    IN  IF result.thrown # {} THEN rethrow(CHOOSE err \in result.thrown : TRUE)
        ELSE Returns(parseRunResult(child.stdout, child.stderr))

\* a faulty view that refuses an error envelope
viewReply_checked(child) ==
    LET result == executeAptosCli(commandOf("view"), child)
        parsed == extractResult(child.stdout)
    IN  IF result.thrown # {} THEN rethrow(CHOOSE err \in result.thrown : TRUE)
        ELSE IF parsed.thrown # {} THEN parsed
        ELSE IF isErrorOutput(child.stdout)
        THEN Throws(CliExecutionError(commandOf("view"), 0, child.stderr, child.stdout))
        ELSE Returns([returnValues |-> CHOOSE v \in parsed.value : TRUE,
                      raw |-> child.stdout])

\* view: exec rethrows, extractResult throws through
viewReply(child) ==
    LET result == executeAptosCli(commandOf("view"), child)
        parsed == extractResult(child.stdout)
    IN  IF result.thrown # {} THEN rethrow(CHOOSE err \in result.thrown : TRUE)
        ELSE IF parsed.thrown # {} THEN parsed
        ELSE Returns([returnValues |-> CHOOSE v \in parsed.value : TRUE,
                      raw |-> child.stdout])

viewResourceReply(child) ==
    LET result == executeAptosCli(commandOf("viewResource"), child)
        parsed == extractResult(child.stdout)
    IN  IF result.thrown # {} THEN rethrow(CHOOSE err \in result.thrown : TRUE)
        ELSE IF parsed.thrown # {} THEN parsed
        ELSE Returns([data |-> CHOOSE v \in parsed.value : TRUE, raw |-> child.stdout])

\* a faulty fund that looks for an error envelope
fundSuccess_parsed(stdout) == ~isErrorOutput(stdout)

\* `success: true`, whatever stdout holds
fundSuccess(stdout) == TRUE

\* fund does not read stdout
fundReply(child) ==
    LET result == executeAptosCli(commandOf("fund"), child)
    IN  IF result.thrown # {} THEN rethrow(CHOOSE err \in result.thrown : TRUE)
        ELSE Returns([success |-> fundSuccess(child.stdout), raw |-> child.stdout])

replyOf(s, op, packageDir, outputDir, child) ==
    CASE op = "init" -> initReply(s, child)
      [] op = "compile" -> compileReply(child, packageDir, outputDir)
      [] op = "publish" -> publishReply(child)
      [] op \in {"run", "runScript"} -> runReply(op, child)
      [] op = "view" -> viewReply(child)
      [] op = "viewResource" -> viewResourceReply(child)
      [] op = "fund" -> fundReply(child)

\* ---------------------------------------------------------------- one call, followed
\* the calls followed: the method, its options, what its subprocess does, and
\* whether a compile of the package went before
Followed ==
    [op : {"init", "run", "runScript", "view", "viewResource", "fund"},
     packageDir : {"none"}, outputDir : {"none"}, built : {FALSE}, child : Children]
    \cup [op : {"compile"}, packageDir : PackageDirs, outputDir : OutputDirs,
          built : BOOLEAN, child : Children]
    \cup [op : {"publish"}, packageDir : PackageDirs, outputDir : {"none"},
          built : BOOLEAN, child : Children]

\* before create for a followed init; else session "s1" alive after its create,
\* and after a compile of "pkg" when `built`
InitReturns ==
    \E f \in Followed :
        LET alive == [s \in Sessions |-> s = "s1" /\ f.op # "init"]
            made == IF f.built THEN {resolveBuildDir("pkg", "none")} ELSE {}
        IN  /\ artifact \in Artifacts
            /\ reply = [op |-> f.op, packageDir |-> f.packageDir, outputDir |-> f.outputDir,
                        built |-> f.built, child |-> f.child,
                        settled |-> FALSE, thrown |-> {}, value |-> {}]
            /\ handle = [s \in Sessions |-> IF alive[s] THEN "returned" ELSE "none"]
            /\ forked = alive
            /\ persist = [s \in Sessions |-> FALSE]
            /\ destroyed = [s \in Sessions |-> FALSE]
            /\ buildDirs = [s \in Sessions |-> IF alive[s] THEN made ELSE {}]
            /\ disk = IF f.op = "init" THEN {} ELSE {sessionPathOf("s1")} \cup made
            /\ pending = [s \in Sessions |-> {}]
            /\ last = IF f.op = "init"
                      THEN [sess |-> "none", op |-> "none", status |-> "none", spawned |-> 0,
                            removed |-> {}, skipped |-> {}, noop |-> FALSE, tick |-> FALSE]
                      ELSE [sess |-> "s1", op |-> IF f.built THEN "compile" ELSE "create",
                            status |-> "ok", spawned |-> 1,
                            removed |-> {}, skipped |-> {}, noop |-> FALSE,
                            tick |-> ~f.built]

\* the followed call is made
calls(s) ==
    /\ ~reply.settled
    /\ pending[s] = {}
    /\ \/ reply.op = "init" /\ create(s, FALSE)
       \/ reply.op \in GatedOps /\ begin(s, reply.op, reply.packageDir, reply.outputDir, reply.op)

\* its subprocess has exited: the handler runs to its end and the caller has the reply
replied(s) ==
    LET out == replyOf(s, reply.op, reply.packageDir, reply.outputDir, reply.child)
    IN  reply' = [reply EXCEPT !.settled = TRUE, !.thrown = out.thrown, !.value = out.value]

initReturns(s) ==
    /\ \E partial \in BOOLEAN : createSettles(s, resultOf(reply.child), partial)
    /\ replied(s)

compileReturns(s) ==
    /\ \E c \in pending[s], partial \in BOOLEAN :
          compileSettles(s, c, resultOf(reply.child), partial)
    /\ replied(s)

publishReturns(s) ==
    /\ \E c \in pending[s] : publishSettles(s, c, resultOf(reply.child))
    /\ replied(s)

plainReturns(s) ==
    /\ \E c \in pending[s] : plainSettles(s, c, resultOf(reply.child))
    /\ replied(s)

NextReturns ==
    \/ calls("s1")
    \/ initReturns("s1")
    \/ compileReturns("s1")
    \/ publishReturns("s1")
    \/ plainReturns("s1")

SpecReturns == InitReturns /\ [][NextReturns]_vars

\* ---------------------------------------------------------------- the parser, applied
\* one call of a function of the output interpreter on one stdout
InitParser ==
    /\ artifact \in Artifacts
    /\ handle = [s \in Sessions |-> "none"]
    /\ forked = [s \in Sessions |-> FALSE]
    /\ persist = [s \in Sessions |-> FALSE]
    /\ destroyed = [s \in Sessions |-> FALSE]
    /\ buildDirs = [s \in Sessions |-> {}]
    /\ disk = {}
    /\ pending = [s \in Sessions |-> {}]
    /\ last = [sess |-> "none", op |-> "none", status |-> "none", spawned |-> 0,
               removed |-> {}, skipped |-> {}, noop |-> FALSE, tick |-> FALSE]
    /\ \E fn \in {"parseJsonOutput", "extractResult", "isErrorOutput"}, out \in CliOutputs :
          reply = [op |-> fn, stdout |-> out, settled |-> FALSE, thrown |-> {},
                   value |-> {}]

parserReturns(fn, out) ==
    /\ reply.op = fn
    /\ ~reply.settled
    /\ reply' = [reply EXCEPT !.settled = TRUE, !.thrown = out.thrown, !.value = out.value]
    /\ UNCHANGED <<artifact, handle, forked, persist, destroyed, buildDirs, disk, pending,
                   last>>

parseJsonOutputReturns == parserReturns("parseJsonOutput", parseJsonOutput(reply.stdout))
extractResultReturns == parserReturns("extractResult", extractResult(reply.stdout))
isErrorOutputReturns == parserReturns("isErrorOutput", Returns(isErrorOutput(reply.stdout)))

NextParser ==
    \/ parseJsonOutputReturns
    \/ extractResultReturns
    \/ isErrorOutputReturns

SpecParser == InitParser /\ [][NextParser]_vars

\* ---------------------------------------------------------------- VM status
\* A VM status text is the sequence of its words; a colon that ends a word is
\* a word of its own, and the empty sequence is the empty string. Letter case
\* is as the toolchain prints it.
ModulePaths == {"0x1::coin"}
NamedCodes == {"EINSUFFICIENT_BALANCE(0x10006)"}

\* the characters of the words that a number is read from
Spelling ==
    "65542" :> <<"6", "5", "5", "4", "2">> @@
    "6" :> <<"6">> @@
    "3" :> <<"3">> @@
    "1" :> <<"1">> @@
    "0x10006" :> <<"0", "x", "1", "0", "0", "0", "6">> @@
    "0xE0001" :> <<"0", "x", "E", "0", "0", "0", "1">> @@
    "EINSUFFICIENT_BALANCE(0x10006)" :>
      <<"E", "I", "N", "S", "U", "F", "F", "I", "C", "I", "E", "N", "T", "_", "B", "A",
        "L", "A", "N", "C", "E", "(", "0", "x", "1", "0", "0", "0", "6", ")">>

\* the characters a text begins with: those of its first word, then the blank
\* (or the end); any other word is one symbol that is no digit
chars(text) ==
    IF text = <<>> THEN <<>>
    ELSE (IF text[1] \in DOMAIN Spelling THEN Spelling[text[1]] ELSE <<text[1]>>) \o <<" ">>

HexDigits == <<"0", "1", "2", "3", "4", "5", "6", "7", "8", "9", "a", "b", "c", "d", "e", "f">>

\* the value of a character as a digit of the radix, in either case; empty
\* when it is none
digitValue(ch, radix) ==
    LET toLowerCase ==
            IF ch \in {"A", "B", "C", "D", "E", "F"}
            THEN ("A" :> "a" @@ "B" :> "b" @@ "C" :> "c" @@ "D" :> "d" @@ "E" :> "e"
                    @@ "F" :> "f")[ch]
            ELSE ch
    IN  {i - 1 : i \in {j \in 1..radix : HexDigits[j] = toLowerCase}}

RECURSIVE valueOf(_, _)
valueOf(digits, radix) ==
    IF digits = <<>> THEN 0
    ELSE LET n == Len(digits)
         IN  valueOf(SubSeq(digits, 1, n - 1), radix) * radix
               + (CHOOSE d \in digitValue(digits[n], radix) : TRUE)

\* parseInt(cs, radix) of a string of characters: the longest run of digits
\* after an optional 0x of radix 16; empty for NaN
parseInt(cs, radix) ==
    LET body == IF radix = 16 /\ Len(cs) >= 2 /\ cs[1] = "0" /\ cs[2] \in {"x", "X"}
                THEN SubSeq(cs, 3, Len(cs)) ELSE cs
        runs == {n \in 0..Len(body) : \A i \in 1..n : digitValue(body[i], radix) # {}}
        len == CHOOSE n \in runs : \A m \in runs : m <= n
    IN  IF len = 0 THEN {} ELSE {valueOf(SubSeq(body, 1, len), radix)}

\* /^\d+$/ and /^\w+$/ of one word
isDigits(word) ==
    /\ word \in DOMAIN Spelling
    /\ \A i \in 1..Len(Spelling[word]) : digitValue(Spelling[word][i], 10) # {}
isWord(word) == word \notin {":"} \cup ModulePaths \cup NamedCodes

ERROR_CATEGORIES ==
    <<"INVALID_ARGUMENT", "OUT_OF_RANGE", "INVALID_STATE", "UNAUTHENTICATED",
      "PERMISSION_DENIED", "NOT_FOUND", "ABORTED", "ALREADY_EXISTS", "RESOURCE_EXHAUSTED",
      "CANCELLED", "INTERNAL", "NOT_IMPLEMENTED", "UNAVAILABLE">>

\* a faulty category that counts the table from zero
categoryOf_fromZero(num) == ((num \div 65536) % 256) + 1

\* (num >> 16) & 0xFF, for num below 2^31
categoryOf(num) == (num \div 65536) % 256

\* category and reason of a canonical abort code, given as its characters;
\* empty for undefined
decodeAbortCode(code) ==
    LET startsWith0x == Len(code) >= 2 /\ code[1] = "0" /\ code[2] = "x"
        num == parseInt(code, IF startsWith0x THEN 16 ELSE 10)
    IN  UNION {IF categoryOf(n) \in DOMAIN ERROR_CATEGORIES
               THEN {[category |-> ERROR_CATEGORIES[categoryOf(n)], reason |-> n % 65536]}
               ELSE {} : n \in num}

\* the words of `text` from position p on are `words`
at(text, p, words) ==
    /\ p + Len(words) - 1 <= Len(text)
    /\ SubSeq(text, p, p + Len(words) - 1) = words
rest(text, p) == SubSeq(text, p, Len(text))
first(indices) == CHOOSE i \in indices : \A j \in indices : i <= j

\* /^status\s+ABORTED\s+with\s+code\s+(\d+)(?:\s+and\s+message\s+(.+?))?\s+in\s+(.+)$/
keptAbortMatch(text) ==
    LET head == /\ at(text, 1, <<"status", "ABORTED", "with", "code">>)
                /\ Len(text) >= 5
                /\ isDigits(text[5])
        ins == {k \in 9..(Len(text) - 1) : text[k] = "in"}
    IN  IF head /\ at(text, 6, <<"and", "message">>) /\ ins # {}
        THEN {[code |-> <<text[5]>>, message |-> {SubSeq(text, 8, first(ins) - 1)},
               location |-> rest(text, first(ins) + 1)]}
        ELSE IF head /\ at(text, 6, <<"in">>) /\ Len(text) >= 7
        THEN {[code |-> <<text[5]>>, message |-> {}, location |-> rest(text, 7)]}
        ELSE {}

\* /EXECUTION_FAILURE\s+at\s+bytecode\s+offset\s+(\d+)\s+in\s+function\s+index\s+(\d+)
\*  \s+in\s+(.+?)(?:\s+with\s+error\s+message\s+(.+))?$/
keptExecMatch(text) ==
    LET starts == {p \in 1..Len(text) :
                     /\ at(text, p, <<"EXECUTION_FAILURE", "at", "bytecode", "offset">>)
                     /\ Len(text) >= p + 10
                     /\ isDigits(text[p + 4])
                     /\ at(text, p + 5, <<"in", "function", "index">>)
                     /\ isDigits(text[p + 8])
                     /\ text[p + 9] = "in"}
        p == first(starts)
        msgs == {k \in (p + 11)..(Len(text) - 3) : at(text, k, <<"with", "error", "message">>)}
    IN  IF starts = {} THEN {}
        ELSE IF msgs # {}
        THEN {[location |-> SubSeq(text, p + 10, first(msgs) - 1),
               message |-> {rest(text, first(msgs) + 3)}]}
        ELSE {[location |-> rest(text, p + 10), message |-> {}]}

\* [:\s]+ from position p: the position of the first word after the colons
pastColons(text, p) == first({k \in p..(Len(text) + 1) : k > Len(text) \/ text[k] # ":"})

\* /Move abort(?:\s+in\s+(0x[a-fA-F0-9]+::\w+(?:::\w+)?))?[:\s]+(.+)/
abortMatch(text) ==
    LET grouped(p) == /\ at(text, p + 2, <<"in">>)
                      /\ Len(text) >= p + 3
                      /\ text[p + 3] \in ModulePaths
                      /\ pastColons(text, p + 4) <= Len(text)
        plain(p) == pastColons(text, p + 2) <= Len(text)
        starts == {p \in 1..Len(text) :
                     at(text, p, <<"Move", "abort">>) /\ (grouped(p) \/ plain(p))}
        p == first(starts)
    IN  IF starts = {} THEN {}
        ELSE IF grouped(p)
        THEN {[location |-> {<<text[p + 3]>>}, code |-> rest(text, pastColons(text, p + 4))]}
        ELSE {[location |-> {}, code |-> rest(text, pastColons(text, p + 2))]}

\* /status\s+ABORTED\s+of\s+type\s+\w+\s+with\s+sub\s+status\s+(\d+)
\*  (?:\s+with\s+message\s+(.+))?$/
sessionAbortMatch(text) ==
    LET starts == {p \in 1..Len(text) :
                     /\ at(text, p, <<"status", "ABORTED", "of", "type">>)
                     /\ Len(text) >= p + 8
                     /\ isWord(text[p + 4])
                     /\ at(text, p + 5, <<"with", "sub", "status">>)
                     /\ isDigits(text[p + 8])
                     /\ \/ Len(text) = p + 8
                        \/ at(text, p + 9, <<"with", "message">>) /\ Len(text) >= p + 11}
        p == first(starts)
    IN  IF starts = {} THEN {}
        ELSE {[code |-> <<text[p + 8]>>,
               message |-> IF Len(text) = p + 8 THEN {} ELSE {rest(text, p + 11)}]}

\* /status\s+(\w+)\s+of\s+type\s+\w+(?:\s+with\s+message\s+(.+))?$/
sessionErrorMatch(text) ==
    LET starts == {p \in 1..Len(text) :
                     /\ text[p] = "status"
                     /\ Len(text) >= p + 4
                     /\ isWord(text[p + 1])
                     /\ at(text, p + 2, <<"of", "type">>)
                     /\ isWord(text[p + 4])
                     /\ \/ Len(text) = p + 4
                        \/ at(text, p + 5, <<"with", "message">>) /\ Len(text) >= p + 7}
        p == first(starts)
    IN  IF starts = {} THEN {}
        ELSE {[status |-> <<text[p + 1]>>,
               message |-> IF Len(text) = p + 4 THEN {} ELSE {rest(text, p + 7)}]}

\* /failed.*?:\s*(.+)/
execMatch(text) ==
    LET \* what of a word follows its first colon
        afterColon(word) == IF word = "0x1::coin" THEN <<":coin">> ELSE <<>>
        captured(k) == afterColon(text[k]) \o rest(text, k + 1)
        colons(p) == {k \in (p + 1)..Len(text) :
                        /\ text[k] \in {":"} \cup ModulePaths
                        /\ captured(k) # <<>>}
        starts == {p \in 1..Len(text) : text[p] = "failed" /\ colons(p) # {}}
    IN  IF starts = {} THEN {}
        ELSE {[status |-> captured(first(colons(first(starts))))]}

\* the structured failure; a field that is undefined or missing is empty
VmFailure(status, abortCode, message, location, decoded) ==
    [status |-> status, abortCode |-> abortCode, message |-> message,
     location |-> location,
     category |-> {d.category : d \in decoded}, reason |-> {d.reason : d \in decoded}]

\* what a pattern makes of the text; empty when it does not match
matched(pattern, text) ==
    CASE pattern = "keptAbort" ->
           {VmFailure(<<"ABORTED">>, {m.code}, m.message, {m.location},
                      decodeAbortCode(chars(m.code))) : m \in keptAbortMatch(text)}
      [] pattern = "keptExec" ->
           {VmFailure(<<"EXECUTION_FAILURE">>, {}, m.message, {m.location}, {}) :
              m \in keptExecMatch(text)}
      [] pattern = "abort" ->
           {VmFailure(<<"Move", "abort">>, {m.code}, {}, m.location,
                      IF artifact = "dist" THEN decodeAbortCode(chars(m.code)) ELSE {}) :
              m \in abortMatch(text)}
      [] pattern = "sessionAbort" ->
           {VmFailure(<<"ABORTED">>, {m.code}, m.message, {}, decodeAbortCode(chars(m.code))) :
              m \in sessionAbortMatch(text)}
      [] pattern = "sessionError" ->
           {VmFailure(m.status, {}, m.message, {}, {}) : m \in sessionErrorMatch(text)}
      [] pattern = "exec" ->
           {VmFailure(m.status, {}, {}, {}, {}) : m \in execMatch(text)}

\* a faulty order that tries the generic pattern first
patterns_genericFirst ==
    IF artifact = "dist"
    THEN <<"exec", "keptAbort", "keptExec", "abort", "sessionAbort", "sessionError">>
    ELSE <<"exec", "abort">>

\* the patterns in the order they are tried
patterns ==
    IF artifact = "dist"
    THEN <<"keptAbort", "keptExec", "abort", "sessionAbort", "sessionError", "exec">>
    ELSE <<"abort", "exec">>

parseVmStatus(vmStatus) ==
    LET matching == {i \in DOMAIN patterns : matched(patterns[i], vmStatus) # {}}
    IN  IF vmStatus = <<>> THEN VmFailure(<<"unknown", "error">>, {}, {}, {}, {})
        ELSE IF matching # {}
        THEN CHOOSE r \in matched(patterns[first(matching)], vmStatus) : TRUE
        ELSE VmFailure(vmStatus, {}, {}, {}, {})

\* the leads a text may begin with
Leads == {<<>>, <<"Execution", "failed", "with", "status", ":">>}

\* the texts the decoder is applied to
VmStatuses ==
  LET DecimalCodes == {"65542", "6"}
      HexCodes == {"0x10006", "0xE0001"}
      Messages == {<<>>, <<"EBALANCE">>}
      Bodies ==
    {<<"status", "ABORTED", "with", "code", c>>
       \o (IF msg = <<>> THEN <<>> ELSE <<"and", "message">> \o msg)
       \o <<"in", "0x1::coin">> : c \in DecimalCodes, msg \in Messages}
    \cup {<<"EXECUTION_FAILURE", "at", "bytecode", "offset", "3", "in", "function", "index",
            "1", "in", "0x1::coin">>
            \o (IF msg = <<>> THEN <<>> ELSE <<"with", "error", "message">> \o msg) :
            msg \in Messages}
    \cup {<<"Move", "abort">> \o where \o <<":", c>> :
            where \in {<<>>, <<"in", "0x1::coin">>},
            c \in DecimalCodes \cup HexCodes \cup NamedCodes}
    \cup {<<"status", "ABORTED", "of", "type", "Execution", "with", "sub", "status", c>>
            \o (IF msg = <<>> THEN <<>> ELSE <<"with", "message">> \o msg) :
            c \in DecimalCodes, msg \in Messages}
    \cup {<<"status", "OUT_OF_GAS", "of", "type", "Execution">>
            \o (IF msg = <<>> THEN <<>> ELSE <<"with", "message">> \o msg) :
            msg \in Messages}
    \cup {<<"OUT_OF_GAS">>, <<"Move", "abort", "in", "0x1::coin">>,
          <<"Execution", "failed", "in", "0x1::coin">>}
  IN  {<<>>} \cup {lead \o body : lead \in Leads, body \in Bodies}

InitVmStatus ==
    /\ artifact \in Artifacts
    /\ handle = [s \in Sessions |-> "none"]
    /\ forked = [s \in Sessions |-> FALSE]
    /\ persist = [s \in Sessions |-> FALSE]
    /\ destroyed = [s \in Sessions |-> FALSE]
    /\ buildDirs = [s \in Sessions |-> {}]
    /\ disk = {}
    /\ pending = [s \in Sessions |-> {}]
    /\ last = [sess |-> "none", op |-> "none", status |-> "none", spawned |-> 0,
               removed |-> {}, skipped |-> {}, noop |-> FALSE, tick |-> FALSE]
    /\ \E text \in VmStatuses :
          reply = [op |-> "parseVmStatus", vmStatus |-> text, settled |-> FALSE,
                   thrown |-> {}, value |-> {}]

parseVmStatusReturns ==
    /\ reply.op = "parseVmStatus"
    /\ ~reply.settled
    /\ reply' = [reply EXCEPT !.settled = TRUE, !.value = {parseVmStatus(reply.vmStatus)}]
    /\ UNCHANGED <<artifact, handle, forked, persist, destroyed, buildDirs, disk, pending,
                   last>>

SpecVmStatus == InitVmStatus /\ [][parseVmStatusReturns]_vars

\* ---------------------------------------------------------------- abort codes
\* the codes the decoder is applied to, as strings of characters: hex numerals
\* of a category part and a four-digit reason, decimal numerals, strings that
\* are no numeral, and each of them once more with a letter after it
AbortCodes ==
    LET HexHighs == {<<>>, <<"0">>, <<"1">>, <<"d">>, <<"E">>, <<"1", "0", "1">>}
        HexLows == {<<"0", "0", "0", "6">>, <<"0", "0", "0", "0">>, <<"0", "0", "0", "1">>,
                    <<"f", "f", "f", "f">>}
        DecimalNumerals ==
            {<<"6">>, <<"0">>, <<"6", "5", "5", "4", "2">>, <<"8", "5", "1", "9", "7", "4">>,
             <<"9", "1", "7", "5", "1", "0">>, <<"1", "6", "8", "4", "2", "7", "5", "8">>}
        NoNumerals == {<<>>, <<"x">>, <<"E", "6">>}
    IN  {code \o tail :
           code \in {<<"0", "x">> \o high \o low : high \in HexHighs, low \in HexLows}
                      \cup DecimalNumerals \cup NoNumerals,
           tail \in {<<>>, <<"z">>}}

InitAbortCode ==
    /\ artifact = "dist"
    /\ handle = [s \in Sessions |-> "none"]
    /\ forked = [s \in Sessions |-> FALSE]
    /\ persist = [s \in Sessions |-> FALSE]
    /\ destroyed = [s \in Sessions |-> FALSE]
    /\ buildDirs = [s \in Sessions |-> {}]
    /\ disk = {}
    /\ pending = [s \in Sessions |-> {}]
    /\ last = [sess |-> "none", op |-> "none", status |-> "none", spawned |-> 0,
               removed |-> {}, skipped |-> {}, noop |-> FALSE, tick |-> FALSE]
    /\ \E code \in AbortCodes :
          reply = [op |-> "decodeAbortCode", code |-> code, settled |-> FALSE,
                   thrown |-> {}, value |-> {}]

\* the value of the call is what it returns; empty for undefined
decodeAbortCodeReturns ==
    /\ reply.op = "decodeAbortCode"
    /\ ~reply.settled
    /\ reply' = [reply EXCEPT !.settled = TRUE, !.value = decodeAbortCode(reply.code)]
    /\ UNCHANGED <<artifact, handle, forked, persist, destroyed, buildDirs, disk, pending,
                   last>>

SpecAbortCode == InitAbortCode /\ [][decodeAbortCodeReturns]_vars

\* ---------------------------------------------------------------- value arguments
\* the helpers of MoveArg that put a type tag before the value, and the
\* characters of the tag each of them writes
MoveArgTypes == {"address", "bool", "u8", "u16", "u32", "u64", "u128", "u256", "string", "hex"}
TypeTag ==
    "address" :> <<"a", "d", "d", "r", "e", "s", "s">> @@
    "bool" :> <<"b", "o", "o", "l">> @@
    "u8" :> <<"u", "8">> @@
    "u16" :> <<"u", "1", "6">> @@
    "u32" :> <<"u", "3", "2">> @@
    "u64" :> <<"u", "6", "4">> @@
    "u128" :> <<"u", "1", "2", "8">> @@
    "u256" :> <<"u", "2", "5", "6">> @@
    "string" :> <<"s", "t", "r", "i", "n", "g">> @@
    "hex" :> <<"h", "e", "x">>

\* values as the helpers' signatures admit them: strings are their characters
ArgValues(t) ==
    LET StringValue(cs) == [type |-> "string", chars |-> cs]
        NumberValue(n) == [type |-> "number", n |-> n]
        BigIntValue(n) == [type |-> "bigint", n |-> n]
        BooleanValue(b) == [type |-> "boolean", b |-> b]
        Strings == {<<>>, <<"0", "x", "1">>, <<"0", "x", "1", ":", ":", "m">>,
                    <<"a", ":", "b">>}
        Numbers == {0, 7, 255, 1000000}
    IN  CASE t \in {"address", "string", "hex"} -> {StringValue(cs) : cs \in Strings}
          [] t = "bool" -> {BooleanValue(b) : b \in BOOLEAN}
          [] t \in {"u8", "u16", "u32"} -> {NumberValue(n) : n \in Numbers}
          [] t \in {"u64", "u128", "u256"} ->
               {NumberValue(n) : n \in Numbers} \cup {BigIntValue(n) : n \in Numbers}
                 \cup {StringValue(cs) :
                         cs \in {<<"4", "2">>, <<"1", "8", "4", "4", "6", "7">>}}

\* the decimal numeral of a natural number
RECURSIVE toString(_)
toString(n) ==
    IF n < 10 THEN <<HexDigits[n + 1]>>
    ELSE toString(n \div 10) \o <<HexDigits[(n % 10) + 1]>>

\* `${v}`: the string a template puts for v
String(v) ==
    CASE v.type = "string" -> v.chars
      [] v.type = "boolean" -> IF v.b THEN <<"t", "r", "u", "e">> ELSE <<"f", "a", "l", "s", "e">>
      [] v.type \in {"number", "bigint"} -> toString(v.n)

\* a faulty helper that passes the value on as it is
MoveArg_raw(t, v) == String(v)

\* MoveArg[t](v)
MoveArg(t, v) == TypeTag[t] \o <<":">> \o String(v)

InitArgs ==
    /\ artifact \in Artifacts
    /\ handle = [s \in Sessions |-> "none"]
    /\ forked = [s \in Sessions |-> FALSE]
    /\ persist = [s \in Sessions |-> FALSE]
    /\ destroyed = [s \in Sessions |-> FALSE]
    /\ buildDirs = [s \in Sessions |-> {}]
    /\ disk = {}
    /\ pending = [s \in Sessions |-> {}]
    /\ last = [sess |-> "none", op |-> "none", status |-> "none", spawned |-> 0,
               removed |-> {}, skipped |-> {}, noop |-> FALSE, tick |-> FALSE]
    /\ \E t \in MoveArgTypes :
          \E v \in ArgValues(t) :
             reply = [op |-> "MoveArg", type |-> t, v |-> v, settled |-> FALSE,
                      thrown |-> {}, value |-> {}]

MoveArgReturns ==
    /\ reply.op = "MoveArg"
    /\ ~reply.settled
    /\ reply' = [reply EXCEPT !.settled = TRUE, !.value = {MoveArg(reply.type, reply.v)}]
    /\ UNCHANGED <<artifact, handle, forked, persist, destroyed, buildDirs, disk, pending,
                   last>>

SpecArgs == InitArgs /\ [][MoveArgReturns]_vars

\* ---------------------------------------------------------------- one subprocess, followed
\* executeAptosCli as this.exec calls it (allowFailure unset), from execFile to
\* the callback. `fate` is what the child would do if left alone; `state` is
\* what it has done; `killed` is execFile's flag once its timer has fired.
InitExec ==
    /\ artifact \in Artifacts
    /\ handle = [s \in Sessions |-> "none"]
    /\ forked = [s \in Sessions |-> FALSE]
    /\ persist = [s \in Sessions |-> FALSE]
    /\ destroyed = [s \in Sessions |-> FALSE]
    /\ buildDirs = [s \in Sessions |-> {}]
    /\ disk = {}
    /\ pending = [s \in Sessions |-> {}]
    /\ last = [sess |-> "none", op |-> "none", status |-> "none", spawned |-> 0,
               removed |-> {}, skipped |-> {}, noop |-> FALSE, tick |-> FALSE]
    /\ \E f \in {"exit0", "exit2", "ENOENT", "hang"},
          pl \in {NotJson, JObj("Error" :> JStr("boom")), JObj("Result" :> JNull)},
          err \in {"", "diag"}, op \in GatedOps \ {"compileAndPublish"} :
        LET out == [ws |-> FALSE, prefix |-> "none", payload |-> pl] IN
          reply = [op |-> "executeAptosCli", command |-> commandOf(op), fate |-> f,
                   stdout |-> out, stderr |-> err, timeout |-> TimeoutTicks,
                   elapsed |-> 0, state |-> "running", killed |-> FALSE,
                   settled |-> FALSE, thrown |-> {}, value |-> {}]

sessionUntouched ==
    UNCHANGED <<artifact, handle, forked, persist, destroyed, buildDirs, disk, pending, last>>

\* a faulty execFile call without the timeout option
timerArmed_never(timeout) == FALSE

\* execFile arms its timer when options.timeout > 0
timerArmed(timeout) == timeout > 0

\* a unit of time passes while the child runs
timePasses ==
    /\ reply.state = "running"
    /\ reply.elapsed < reply.timeout
    /\ reply' = [reply EXCEPT !.elapsed = @ + 1]
    /\ sessionUntouched

\* the binary cannot be started: the child emits 'error'
spawnFails ==
    /\ reply.state = "running"
    /\ reply.fate = "ENOENT"
    /\ ~reply.killed
    /\ reply' = [reply EXCEPT !.state = "error"]
    /\ sessionUntouched

\* the child exits by itself
childExits ==
    /\ reply.state = "running"
    /\ reply.fate \in {"exit0", "exit2"}
    /\ reply' = [reply EXCEPT !.state = reply.fate]
    /\ sessionUntouched

\* execFile's timer fires: the child is sent the kill signal
delayedKill ==
    /\ reply.state = "running"
    /\ timerArmed(reply.timeout)
    /\ reply.elapsed = reply.timeout
    /\ ~reply.killed
    /\ reply' = [reply EXCEPT !.killed = TRUE]
    /\ sessionUntouched

\* the signalled child is terminated
childTerminated ==
    /\ reply.state = "running"
    /\ reply.killed
    /\ reply' = [reply EXCEPT !.state = "signalled"]
    /\ sessionUntouched

\* the callback of execFile: exitCode from error.code, then reject or resolve
execFileCallback ==
    LET error == reply.state # "exit0"
        exitCode == IF ~error THEN 0 ELSE IF reply.state = "exit2" THEN 2 ELSE 1
        out == IF error
               THEN Throws(CliExecutionError(reply.command, exitCode, reply.stderr,
                                             reply.stdout))
               ELSE Returns([stdout |-> reply.stdout, stderr |-> reply.stderr,
                             exitCode |-> exitCode])
    IN  /\ reply.state \in {"exit0", "exit2", "error", "signalled"}
        /\ ~reply.settled
        /\ reply' = [reply EXCEPT !.settled = TRUE, !.thrown = out.thrown,
                                  !.value = out.value]
        /\ sessionUntouched

NextExec ==
    \/ timePasses
    \/ spawnFails
    \/ childExits
    \/ delayedKill
    \/ childTerminated
    \/ execFileCallback

\* time passes, the event loop runs its timers and callbacks, and a child that
\* is sent the kill signal is terminated
SpecExec == InitExec /\ [][NextExec]_vars /\ WF_vars(NextExec)

\* ================================================================ claims
\* the lifecycle of the specification's state machine, read off the two facts
\* the code keeps: the caller holds the object, and its destroyed flag
lifecycle(s) ==
    IF ~held(s) THEN "uninitialized"
    ELSE IF destroyed[s] THEN "destroyed" ELSE "alive"

\* a step that is a call of a lifecycle-gated operation on session s
GatedCall(s) ==
    \/ \E p \in PackageDirs, o \in OutputDirs : compile(s, p, o)
    \/ \E p \in PackageDirs : publish(s, p)
    \/ \E p \in PackageDirs, o \in OutputDirs : compileAndPublish(s, p, o)
    \/ run(s) \/ view(s) \/ runScript(s) \/ fund(s) \/ viewResource(s)

\* a step in which call c of session s settles, its caller seeing `statuses`
Settles(s, c, statuses) ==
    /\ c \in pending[s]
    /\ c \notin pending'[s]
    /\ last'.tick # last.tick
    /\ last'.sess = s
    /\ last'.op = c.op
    /\ last'.status \in statuses

\* C1: on a destroyed session every call of compile, publish, compileAndPublish,
\* run, view, runScript, fund and viewResource fails with SessionDestroyedError
\* and starts no subprocess.
C1_GatedCallAfterDestroyFailsFast ==
    [][\A s \in Sessions :
          (destroyed[s] /\ GatedCall(s)) =>
             /\ last'.tick # last.tick
             /\ last'.sess = s
             /\ last'.op \in GatedOps
             /\ last'.status = "SessionDestroyedError"
             /\ last'.spawned = 0
             /\ pending' = pending]_vars

C1_Witness ==
    /\ last.op = "compileAndPublish"
    /\ last.status = "SessionDestroyedError"
    /\ last.spawned = 0
    /\ destroyed[last.sess]

\* C2: a destroy() on a session that is already destroyed changes neither the
\* disk, nor the lifecycle flag, nor the tracked set, raises nothing and removes
\* nothing.
C2_DestroyIdempotent ==
    [][\A s \in Sessions :
          (destroyed[s] /\ destroy(s)) =>
             /\ disk' = disk
             /\ destroyed' = destroyed
             /\ buildDirs' = buildDirs
             /\ last'.status = "ok"
             /\ last'.removed = {}]_vars

C2_Witness ==
    /\ last.op = "destroy"
    /\ last.noop
    /\ last.status = "ok"
    /\ destroyed[last.sess]

\* C3: the first destroy() leaves none of the directories it tracked on disk and
\* an empty tracked set, and raises nothing, also when a tracked directory was
\* already missing.
C3_FirstDestroyRemovesTracked ==
    [][\A s \in Sessions :
          (~destroyed[s] /\ destroy(s)) =>
             /\ buildDirs[s] \cap disk' = {}
             /\ buildDirs'[s] = {}
             /\ last'.status = "ok"]_vars

C3_Witness ==
    /\ last.op = "destroy"
    /\ last.status = "ok"
    /\ last.removed \cap BuildPaths # {}
    /\ last.skipped # {}
    /\ buildDirs[last.sess] = {}

\* C4: the first destroy() removes the session directory exactly when persist
\* is false; with persist it leaves the session directory as it was and still
\* removes the tracked build directories.
C4_SessionDirRemovedIffNotPersist ==
    [][\A s \in Sessions :
          (~destroyed[s] /\ destroy(s)) =>
             IF persist[s]
             THEN /\ (sessionPathOf(s) \in disk') = (sessionPathOf(s) \in disk)
                  /\ buildDirs[s] \cap disk' = {}
             ELSE sessionPathOf(s) \notin disk']_vars

C4_Witness ==
    /\ last.op = "destroy"
    /\ persist[last.sess]
    /\ sessionPathOf(last.sess) \in disk
    /\ last.removed # {}

\* C5 (as claimed): on a destroyed session every method other than destroy,
\* generateAccount included, throws SessionDestroyedError.
C5_EveryMethodThrowsAfterDestroy ==
    [][\A s \in Sessions :
          (destroyed[s] /\ (GatedCall(s) \/ generateAccount(s))) =>
             last'.status = "SessionDestroyedError"]_vars

\* C6: a session's lifecycle only moves uninitialized -> alive -> destroyed:
\* destroyed is never left, alive is entered only by a create whose init
\* succeeded, and destroyed only by destroy.
C6_LifecycleOrder ==
    [][\A s \in Sessions :
          \/ lifecycle(s)' = lifecycle(s)
          \/ /\ lifecycle(s) = "uninitialized"
             /\ lifecycle(s)' = "alive"
             /\ last'.op = "create" /\ last'.sess = s /\ last'.status = "ok"
             /\ forked'[s]
          \/ /\ lifecycle(s) = "alive"
             /\ lifecycle(s)' = "destroyed"
             /\ last'.op = "destroy" /\ last'.sess = s]_vars

C6_Witness ==
    /\ last.op \in GatedOps
    /\ last.status = "ok"
    /\ lifecycle(last.sess) = "destroyed"
    /\ forked[last.sess]

\* C7: a session whose init command did not succeed is never handed to the
\* caller: create rejects with the execution error, and no operation is ever
\* pending or settled on it.
C7_FailedInitNeverEscapes ==
    \A s \in Sessions :
        ~forked[s] =>
            /\ ~held(s)
            /\ \A c \in pending[s] : c.op = "create"
            /\ last.sess = s =>
                  (last.op = "create" /\ last.status = "CliExecutionError")

C7_Witness ==
    /\ last.op = "create"
    /\ last.status = "CliExecutionError"
    /\ handle[last.sess] = "rejected"
    /\ ~forked[last.sess]

\* C8 (as claimed): when a compile() fails after its subprocess ran, the build
\* directory resolved from its options is neither on disk nor tracked.
C8_CompileFailureRemovesBuildDir ==
    [][\A s \in Sessions : \A c \in pending[s] :
          (c.op = "compile" /\
           Settles(s, c, {"CliExecutionError", "CompilationError", "CliParseError"})) =>
             /\ resolveBuildDir(c.packageDir, c.outputDir) \notin disk'
             /\ resolveBuildDir(c.packageDir, c.outputDir) \notin buildDirs'[s]]_vars

\* C9 (as claimed): when a publish() fails, the build directory of its package
\* is neither on disk nor tracked.
C9_PublishFailureRemovesBuildDir ==
    [][\A s \in Sessions : \A c \in pending[s] :
          (c.op = "publish" /\ Settles(s, c, {"CliExecutionError"})) =>
             /\ resolveBuildDir(c.packageDir, "none") \notin disk'
             /\ resolveBuildDir(c.packageDir, "none") \notin buildDirs'[s]]_vars

\* C10: a publish() that returns leaves the tracked set and the disk as they
\* were: what an earlier compile() tracked is still tracked and still on disk.
C10_PublishSuccessKeepsBuildDir ==
    [][\A s \in Sessions : \A c \in pending[s] :
          (c.step = "publish" /\ Settles(s, c, {"ok"})) =>
             /\ buildDirs' = buildDirs
             /\ disk' = disk]_vars

C10_Witness ==
    /\ last.op = "publish"
    /\ last.status = "ok"
    /\ resolveBuildDir("pkg", "none") \in buildDirs[last.sess] \cap disk

\* C11 (as claimed): when the publish step of compileAndPublish() fails after a
\* successful compile step, the directory the compile step recorded (the custom
\* outputDir included) is neither on disk nor tracked.
C11_PublishStepFailureRemovesCompiledDir ==
    [][\A s \in Sessions : \A c \in pending[s] :
          (c.op = "compileAndPublish" /\ c.step = "publish" /\
           Settles(s, c, {"CliExecutionError"})) =>
             /\ resolveBuildDir(c.packageDir, c.outputDir) \notin disk'
             /\ resolveBuildDir(c.packageDir, c.outputDir) \notin buildDirs'[s]]_vars

\* the followed call is `op`, its subprocess exited zero / did not
RepliedTo(ops) == reply.op \in ops /\ reply.settled
ExitedZero == reply.child.error = "none"

\* stdout from which parseJsonOutput recovers no JSON value
Unparseable == parseJsonOutput(reply.child.stdout).thrown # {}

\* the Result object of an envelope that parses; the empty set when there is none
ResultObject ==
    LET out == reply.child.stdout
        p == out.payload
    IN  IF out.prefix # "bracketed" /\ p.t = "object" /\ "Result" \in DOMAIN p.fields
           /\ p.fields["Result"].t = "object"
        THEN {p.fields["Result"]} ELSE {}

\* C12 (as claimed): publish, run and runScript, on exit zero with stdout that is
\* not recoverable JSON, do not throw and return success = false.
C12_WriteOpsUnparseableReturnFailure ==
    (RepliedTo({"publish", "run", "runScript"}) /\ ExitedZero /\ Unparseable) =>
        /\ reply.thrown = {}
        /\ reply.value # {}
        /\ \A v \in reply.value : v.success = FALSE

\* C12 (amended): on exit zero with stdout that is not recoverable JSON none of
\* publish, run and runScript throws; run and runScript return success = false,
\* publish returns success = true.
C12_UnparseableNeverThrows ==
    (RepliedTo({"publish", "run", "runScript"}) /\ ExitedZero /\ Unparseable) =>
        /\ reply.thrown = {}
        /\ reply.value # {}
        /\ \A v \in reply.value : v.success = (reply.op = "publish")

C12_Witness ==
    /\ RepliedTo({"runScript"})
    /\ ExitedZero
    /\ reply.child.stdout.payload = NotJson
    /\ \E v \in reply.value : v.success = FALSE /\ v.vmStatus = {} /\ v.gasUsed = {}

\* C13: publish(), on exit zero with stdout that does not parse, returns
\* success = true with transactionHash and gasUsed absent.
C13_PublishUnparseableIsSuccess ==
    (RepliedTo({"publish"}) /\ ExitedZero /\ Unparseable) =>
        /\ reply.thrown = {}
        /\ \E v \in reply.value :
              /\ v.success = TRUE
              /\ v.transactionHash = {}
              /\ v.gasUsed = {}
              /\ v.raw = reply.child.stdout

C13_Witness ==
    /\ RepliedTo({"publish"})
    /\ ExitedZero
    /\ reply.child.stdout.prefix = "bracketed"
    /\ reply.child.stdout.payload \in {JObj("Result" :> x) : x \in TxResults}
    /\ \E v \in reply.value : v.success /\ v.transactionHash = {} /\ v.gasUsed = {}

\* C14: view and viewResource, on exit zero with stdout that is not recoverable
\* JSON, throw CliParseError carrying the trimmed stdout and return nothing.
C14_ViewUnparseableThrows ==
    (RepliedTo({"view", "viewResource"}) /\ ExitedZero /\ Unparseable) =>
        /\ reply.value = {}
        /\ reply.thrown = {[name |-> "CliParseError",
                            rawOutput |-> [reply.child.stdout EXCEPT !.ws = FALSE]]}

C14_Witness ==
    /\ RepliedTo({"viewResource"})
    /\ ExitedZero
    /\ reply.child.stdout.ws
    /\ reply.child.stdout.payload = NotJson
    /\ \E e \in reply.thrown : e.name = "CliParseError" /\ e.rawOutput # reply.child.stdout

C17_CompilationErrorIffStderr ==
    RepliedTo({"compile"}) =>
        IF ~ExitedZero /\ reply.child.stderr # ""
        THEN reply.thrown = {[name |-> "CompilationError",
                              diagnostics |-> reply.child.stderr]}
        ELSE IF ~ExitedZero
        THEN reply.thrown = {[name |-> "CliExecutionError",
                              command |-> commandOf("compile"),
                              exitCode |-> IF reply.child.error = "exit2" THEN 2 ELSE 1,
                              stderr |-> "",
                              stdout |-> reply.child.stdout]}
        ELSE IF Unparseable
        THEN reply.thrown = {[name |-> "CliParseError",
                              rawOutput |-> [reply.child.stdout EXCEPT !.ws = FALSE]]}
        ELSE reply.thrown = {}

C17_Witness ==
    /\ RepliedTo({"compile"})
    /\ reply.child.error = "exit2"
    /\ reply.thrown = {[name |-> "CompilationError", diagnostics |-> "diag"]}

\* C18: a compile() whose subprocess exits zero with stdout that parses tracks
\* the resolved build directory (outputDir if given, else <packageDir>/build)
\* and returns it as buildDir; moduleIds is Result.module_ids, and the empty
\* list when module_ids is absent.
C18_CompileSuccessTracksAndReturns ==
    (RepliedTo({"compile"}) /\ ExitedZero /\ ~Unparseable) =>
        LET buildDir == IF reply.outputDir = "none"
                        THEN <<"build", reply.packageDir>> ELSE <<"out", reply.outputDir>>
        IN  /\ reply.thrown = {}
            /\ buildDir \in buildDirs["s1"]
            /\ \E v \in reply.value :
                  /\ v.buildDir = buildDir
                  /\ v.raw = reply.child.stdout
                  /\ \A r \in ResultObject :
                        v.moduleIds = IF "module_ids" \in DOMAIN r.fields
                                      THEN r.fields["module_ids"].items ELSE <<>>

C18_Witness ==
    /\ RepliedTo({"compile"})
    /\ reply.outputDir = "out"
    /\ <<"out", "out">> \in buildDirs["s1"]
    /\ \E v \in reply.value :
          v.buildDir = <<"out", "out">> /\ v.moduleIds = <<JStr("0x1::m")>>

\* C19: compileAndPublish() runs compile, then publish: its publish subprocess
\* is started only by a compile step that returned (the directory is tracked),
\* a compile step that fails settles the call with compile's error after one
\* subprocess, and a publish step that fails settles it with the execution
\* error of the second subprocess.
C19_CompileThenPublish ==
    [][\A s \in Sessions :
          /\ \A c \in pending'[s] \ pending[s] :
                (c.op = "compileAndPublish" /\ c.step = "publish") =>
                   /\ Call(c.op, c.packageDir, c.outputDir, "compile", 1) \in pending[s]
                   /\ c.spawned = 2
                   /\ resolveBuildDir(c.packageDir, c.outputDir) \in buildDirs'[s]
                   /\ last' = last
          /\ \A c \in pending[s] \ pending'[s] :
                (c.op = "compileAndPublish" /\ c.step = "compile") =>
                   \/ Call(c.op, c.packageDir, c.outputDir, "publish", 2) \in pending'[s]
                   \/ /\ Settles(s, c, {"CompilationError", "CliExecutionError",
                                        "CliParseError", "SessionDestroyedError"})
                      /\ last'.spawned = 1
          /\ \A c \in pending[s] \ pending'[s] :
                (c.op = "compileAndPublish" /\ c.step = "publish") =>
                   /\ Settles(s, c, {"ok", "CliExecutionError"})
                   /\ last'.spawned = 2]_vars

C19_Witness ==
    /\ last.op = "compileAndPublish"
    /\ last.status = "CliExecutionError"
    /\ last.spawned = 2

\* C20 (as claimed): no call of a public method starts more than one
\* subprocess, compileAndPublish included.
C20_AtMostOneSubprocessPerCall ==
    /\ last.spawned <= 1
    /\ \A s \in Sessions : \A c \in pending[s] : c.spawned <= 1

\* C20 (amended): a call of compileAndPublish starts at most two subprocesses,
\* one per step; a call of any other public method starts at most one, and
\* destroy and generateAccount start none.
C20_SubprocessesPerCall ==
    LET most(op) == IF op = "compileAndPublish" THEN 2
                    ELSE IF op \in {"destroy", "generateAccount"} THEN 0 ELSE 1
    IN  /\ last.spawned <= most(last.op)
        /\ \A s \in Sessions : \A c \in pending[s] : c.spawned <= most(c.op)

C20_Witness ==
    /\ last.op = "compileAndPublish"
    /\ last.status = "ok"
    /\ last.spawned = 2

\* C21: fund() returns success = true whenever its subprocess exits zero,
\* whatever stdout holds (an error envelope included), and throws the
\* execution error of the subprocess otherwise.
C21_FundSuccessIffExitZero ==
    RepliedTo({"fund"}) =>
        IF ExitedZero
        THEN /\ reply.thrown = {}
             /\ reply.value = {[success |-> TRUE, raw |-> reply.child.stdout]}
        ELSE /\ reply.value = {}
             /\ \A e \in reply.thrown :
                   e.name = "CliExecutionError" /\ e.stderr = reply.child.stderr
             /\ reply.thrown # {}

C21_Witness ==
    /\ RepliedTo({"fund"})
    /\ ExitedZero
    /\ reply.child.stdout.prefix = "none"
    /\ reply.child.stdout.payload = JObj("Error" :> JStr("boom"))
    /\ \E v \in reply.value : v.success

StepOf(s) ==
    \/ pending'[s] # pending[s]
    \/ last'.tick # last.tick /\ last'.sess = s

\* C23 (as claimed): no operation of one session, destroy and failure cleanup
\* included, changes another session's lifecycle flag or tracked set, or
\* removes a directory that another live session tracks.
C23_SessionsDoNotInterfere ==
    [][\A s \in Sessions : \A t \in Sessions \ {s} :
          StepOf(s) =>
             /\ destroyed'[t] = destroyed[t]
             /\ buildDirs'[t] = buildDirs[t]
             /\ (held(t) /\ ~destroyed[t]) => (buildDirs[t] \cap disk) \subseteq disk']_vars

\* C24: a first destroy() that finds a tracked build directory or the session
\* directory already gone raises nothing, sets the session destroyed and
\* empties the tracked set.
C24_DestroyToleratesMissing ==
    [][\A s \in Sessions :
          (~destroyed[s] /\ destroy(s) /\ destroyTargets(s) \ disk # {}) =>
             /\ last'.op = "destroy"
             /\ last'.status = "ok"
             /\ destroyed'[s]
             /\ buildDirs'[s] = {}
             /\ destroyTargets(s) \cap disk' = {}]_vars

C24_Witness ==
    /\ last.op = "destroy"
    /\ last.status = "ok"
    /\ sessionPathOf(last.sess) \in last.skipped
    /\ last.skipped \cap BuildPaths # {}
    /\ destroyed[last.sess]
    /\ buildDirs[last.sess] = {}

\* the raw stdout / stderr of the failed command is a field of the error
CarriesStdout(e) ==
    CASE e.name = "CliExecutionError" -> e.stdout = reply.child.stdout
      [] e.name = "CliParseError" -> e.rawOutput = reply.child.stdout
      [] OTHER -> FALSE

CarriesStderr(e) ==
    CASE e.name = "CliExecutionError" -> e.stderr = reply.child.stderr
      [] e.name = "CompilationError" -> e.diagnostics = reply.child.stderr
      [] OTHER -> reply.child.stderr = ""

\* C25 (as claimed): every error a session operation throws carries the full
\* raw stdout and the full raw stderr of the failed command, the
\* CompilationError of compile and the parse errors included.
C25_FailuresKeepBothStreams ==
    reply.op \in GatedOps \cup {"init"} /\ reply.settled =>
        \A e \in reply.thrown : CarriesStdout(e) /\ CarriesStderr(e)

\* C26: parseJsonOutput returns the value of the whole trimmed stdout when that
\* is JSON; otherwise the value of the text from its earliest `{` or `[` when
\* that is JSON, so that a line of log text before the envelope is skipped;
\* otherwise it throws CliParseError carrying the trimmed stdout.
C26_ParseJsonOutput ==
    (reply.op = "parseJsonOutput" /\ reply.settled) =>
        LET out == reply.stdout
        IN  IF out.prefix = "none" /\ out.payload # NotJson
            THEN reply.thrown = {} /\ reply.value = {out.payload}
            ELSE IF out.prefix = "plain" /\ out.payload.t \in {"object", "array"}
            THEN reply.thrown = {} /\ reply.value = {out.payload}
            ELSE /\ reply.value = {}
                 /\ reply.thrown = {[name |-> "CliParseError",
                                     rawOutput |-> [out EXCEPT !.ws = FALSE]]}

C26_Witness ==
    /\ reply.op = "parseJsonOutput"
    /\ reply.settled
    /\ reply.stdout.ws
    /\ reply.stdout.prefix = "plain"
    /\ reply.value = {JObj("Result" :> JObj("module_ids" :> JArr(<<JStr("0x1::m")>>)))}

\* what a stdout parses to, read off its structure: nothing when it does not parse
ParsesTo(out) ==
    IF \/ out.prefix = "none" /\ out.payload # NotJson
       \/ out.prefix = "plain" /\ out.payload.t \in {"object", "array"}
    THEN {out.payload}
    ELSE {}

HasKey(v, key) == v.t = "object" /\ key \in DOMAIN v.fields

\* C27: extractResult returns the value under the Result key when stdout parses
\* to an object that has one, and the parsed value itself otherwise;
\* isErrorOutput is true exactly when stdout parses to an object with an Error
\* key, and false (not an exception) when stdout does not parse. For an
\* envelope whose only key is Error, isErrorOutput is true and extractResult
\* gives the whole envelope.
C27_ExtractResultAndIsErrorOutput ==
    LET parsed == ParsesTo(reply.stdout)
    IN  /\ (reply.op = "extractResult" /\ reply.settled /\ parsed # {}) =>
              /\ reply.thrown = {}
              /\ \A v \in parsed :
                    reply.value = IF HasKey(v, "Result") THEN {v.fields["Result"]} ELSE {v}
        /\ (reply.op = "isErrorOutput" /\ reply.settled) =>
              /\ reply.thrown = {}
              /\ reply.value = {\E v \in parsed : HasKey(v, "Error")}

C27_Witness ==
    /\ reply.op = "extractResult"
    /\ reply.settled
    /\ reply.stdout.payload = JObj("Error" :> JStr("boom"))
    /\ reply.value = {JObj("Error" :> JStr("boom"))}

\* the call of the decoder on `text` has returned
Decoded(text) == reply.op = "parseVmStatus" /\ reply.settled /\ reply.vmStatus = text

KeptAbortExample == <<"status", "ABORTED", "with", "code", "65542", "in", "0x1::coin">>

C29_NamedAbortDecodesItsHex ==
    \A lead \in Leads, name \in NamedCodes :
        Decoded(lead \o <<"Move", "abort", "in", "0x1::coin", ":", name>>) =>
            \A v \in reply.value :
                /\ v.status = <<"Move", "abort">>
                /\ v.location = {<<"0x1::coin">>}
                /\ v.abortCode = {<<name>>}
                /\ v.category = {"INVALID_ARGUMENT"}
                /\ v.reason = {6}

\* the priority of the patterns, richest first and the generic one last
PriorityOrder == <<"keptAbort", "keptExec", "abort", "sessionAbort", "sessionError", "exec">>

\* what the first pattern in priority order that the build has and that matches
\* makes of the text; empty when none matches
FirstMatch(text) ==
    LET has == {patterns[i] : i \in DOMAIN patterns}
        matching == {i \in DOMAIN PriorityOrder :
                       PriorityOrder[i] \in has /\ matched(PriorityOrder[i], text) # {}}
    IN  IF matching = {} THEN {} ELSE matched(PriorityOrder[first(matching)], text)

\* C30 as stated: the decoder returns for every text, with the result of the
\* first pattern of its order that matches, the generic pattern being the last;
\* a text that no pattern matches gives exactly {status: <the text>}.
C30_FirstMatchOrTheText ==
    (reply.op = "parseVmStatus" /\ reply.settled) =>
        LET text == reply.vmStatus
        IN  /\ reply.thrown = {}
            /\ reply.value =
                 IF FirstMatch(text) # {} THEN FirstMatch(text)
                 ELSE {[status |-> text, abortCode |-> {}, message |-> {}, location |-> {},
                        category |-> {}, reason |-> {}]}

\* C30, amended: the decoder returns for every text. For the empty text the
\* result is exactly {status: "unknown error"}. For any other text it is the
\* result of the first pattern of the order that matches, the generic pattern
\* being the last, and exactly {status: <the text>} when no pattern matches.
C30_FirstMatchOrTheTextUnlessEmpty ==
    (reply.op = "parseVmStatus" /\ reply.settled) =>
        LET text == reply.vmStatus
            only(status) == {[status |-> status, abortCode |-> {}, message |-> {},
                              location |-> {}, category |-> {}, reason |-> {}]}
        IN  /\ reply.thrown = {}
            /\ reply.value =
                 IF text = <<>> THEN only(<<"unknown", "error">>)
                 ELSE IF FirstMatch(text) # {} THEN FirstMatch(text)
                 ELSE only(text)

C30_Witness ==
    /\ Decoded(<<"Execution", "failed", "with", "status", ":", "Move", "abort", ":", "6">>)
    /\ \E v \in reply.value : v.status = <<"Move", "abort">> /\ v.abortCode = {<<"6">>}

\* the number a numeral denotes: decimal digits, or hex digits after 0x; empty
\* when the code is no numeral
Denotes(code) ==
    LET hex == Len(code) >= 2 /\ code[1] = "0" /\ code[2] = "x"
        radix == IF hex THEN 16 ELSE 10
        digits == IF hex THEN SubSeq(code, 3, Len(code)) ELSE code
    IN  IF digits # <<>> /\ \A i \in 1..Len(digits) : digitValue(digits[i], radix) # {}
        THEN {valueOf(digits, radix)}
        ELSE {}

\* C31: for a code that is the numeral of n (decimal, or hex after 0x), the
\* decoder gives reason n mod 2^16 and the category that n div 2^16 names in
\* the table of 13, both together; when n div 2^16 is 0 or above 13, or the code
\* is no numeral, it gives neither.
C31_AbortCodeDecoding ==
    (reply.op = "decodeAbortCode" /\ reply.settled) =>
        reply.value =
            UNION {IF n \div 65536 \in 1..13
                   THEN {[category |-> ERROR_CATEGORIES[n \div 65536], reason |-> n % 65536]}
                   ELSE {} : n \in Denotes(reply.code)}

\* an argument split at its first colon; the whole is the tag when it has none
splitAtFirstColon(arg) ==
    LET colons == {i \in 1..Len(arg) : arg[i] = ":"}
    IN  IF colons = {} THEN [tag |-> arg, literal |-> <<>>]
        ELSE [tag |-> SubSeq(arg, 1, first(colons) - 1),
              literal |-> SubSeq(arg, first(colons) + 1, Len(arg))]

\* C32: for every helper t of address, bool, u8 .. u256, string and hex and
\* every value v, MoveArg.t(v) is the tag t, a colon and the literal of v, and
\* splitting it at its first colon gives back the tag t and the literal of v,
\* also when the literal holds a colon.
C32_ValueArgumentsRoundTrip ==
    (reply.op = "MoveArg" /\ reply.settled) =>
        \A arg \in reply.value :
            /\ reply.value = {arg}
            /\ arg = TypeTag[reply.type] \o <<":">> \o String(reply.v)
            /\ splitAtFirstColon(arg).tag = TypeTag[reply.type]
            /\ splitAtFirstColon(arg).literal = String(reply.v)
            /\ \A t \in MoveArgTypes : TypeTag[t] = splitAtFirstColon(arg).tag => t = reply.type

C32_Witness ==
    /\ reply.op = "MoveArg"
    /\ reply.settled
    /\ reply.type = "address"
    /\ reply.v = [type |-> "string", chars |-> <<"0", "x", "1", ":", ":", "m">>]
    /\ reply.value = {<<"a", "d", "d", "r", "e", "s", "s", ":", "0", "x", "1", ":", ":", "m">>}

\* C33: in every reachable state, also when destroy() ran while a compile() or
\* compileAndPublish() was awaiting its subprocess, a destroyed session tracks
\* no build directory.
C33_DestroyedSessionTracksNothing ==
    \A s \in Sessions : destroyed[s] => buildDirs[s] = {}

\* C34: no step starts a subprocess of a destroyed session, whatever the
\* interleaving with destroy(); a compileAndPublish() whose compile step
\* returns after destroy() starts no publish subprocess and fails with
\* SessionDestroyedError.
C34_NoSubprocessOnceDestroyed ==
    [][\A s \in Sessions :
          /\ destroyed[s] => pending'[s] \subseteq pending[s]
          /\ \A c \in pending[s] \ pending'[s] :
                (destroyed[s] /\ c.op = "compileAndPublish" /\ c.step = "compile") =>
                   /\ Settles(s, c, {"SessionDestroyedError", "CompilationError",
                                     "CliExecutionError", "CliParseError"})
                   /\ last'.spawned = 1]_vars

C34_Witness ==
    /\ destroyed["s1"]
    /\ pending["s1"] = {}
    /\ last.op = "compileAndPublish"
    /\ last.status = "SessionDestroyedError"
    /\ last.spawned = 1

\* C35: after a compile() whose subprocess exited zero, also when its stdout
\* does not parse, the resolved build directory is tracked by the session or is
\* not on disk.
C35_NoUntrackedBuildDir ==
    [][\A s \in Sessions : \A c \in pending[s] :
          (c.op = "compile" /\ Settles(s, c, {"ok", "CliParseError"})) =>
             \/ resolveBuildDir(c.packageDir, c.outputDir) \in buildDirs'[s]
             \/ resolveBuildDir(c.packageDir, c.outputDir) \notin disk']_vars

\* a step of run, runScript, view, viewResource, fund or generateAccount on
\* session s: the call starts its subprocess, or its caller gets the outcome
PlainStep(s) ==
    \/ \E c \in pending'[s] \ pending[s] : c.op \in PlainOps
    \/ /\ last'.tick # last.tick
       /\ last'.sess = s
       /\ last'.op \in PlainOps \cup {"generateAccount"}

\* C36: run, runScript, view, viewResource, fund and generateAccount leave the
\* lifecycle flag and the tracked set as they were and remove nothing from
\* disk, whether they succeed or fail; the tracked set of a session changes
\* only in a step of its compile, publish, compileAndPublish or destroy.
C36_PlainOperationsTouchNothing ==
    [][\A s \in Sessions :
          /\ PlainStep(s) =>
                /\ destroyed' = destroyed
                /\ buildDirs' = buildDirs
                /\ disk' = disk
          /\ buildDirs'[s] # buildDirs[s] =>
                \/ /\ last'.tick # last.tick
                   /\ last'.sess = s
                   /\ last'.op \in {"compile", "publish", "compileAndPublish", "destroy"}
                \/ \E c \in pending[s] \ pending'[s] :
                      c.op = "compileAndPublish" /\ c.step = "compile"]_vars

C36_Witness ==
    /\ last.op = "view"
    /\ last.status = "CliParseError"
    /\ ~destroyed["s1"]
    /\ buildDirs["s1"] # {}
    /\ buildDirs["s1"] \subseteq disk

\* Result.success of a parsed value; empty when there is none
ResultSuccess(p) ==
    IF HasKey(p, "Result") /\ HasKey(p.fields["Result"], "success")
    THEN {p.fields["Result"].fields["success"]}
    ELSE {}

\* C37: on exit zero with stdout that parses, publish returns success = false
\* only for an error envelope or when Result.success is false, and run and
\* runScript return success = true only when Result.success is true; for a
\* Result without success publish says true and run says false.
C37_PublishAndRunDefaults ==
    ((RepliedTo({"publish", "run", "runScript"}) /\ ExitedZero) =>
        \A p \in ParsesTo(reply.child.stdout) :
            /\ reply.thrown = {}
            /\ reply.value # {}
            /\ \A v \in reply.value :
                  IF reply.op = "publish"
                  THEN v.success = FALSE <=>
                         (HasKey(p, "Error") \/ ResultSuccess(p) = {JBool(FALSE)})
                  ELSE v.success = TRUE <=> ResultSuccess(p) = {JBool(TRUE)})

C37_Witness ==
    /\ RepliedTo({"publish"})
    /\ ExitedZero
    /\ reply.child.stdout.payload = JObj("Result" :> JObj("gas_used" :> JNum(567)))
    /\ \E v \in reply.value : v.success = TRUE /\ v.gasUsed = {567}

\* C38: view and viewResource either return a value or throw, never both and
\* never neither, and they do not look for an error envelope: on exit zero with
\* stdout {"Error": e} they return the whole envelope as returnValues / data,
\* with raw = stdout.
C38_ViewReturnsErrorEnvelope ==
    RepliedTo({"view", "viewResource"}) =>
        /\ (reply.thrown = {}) # (reply.value = {})
        /\ (ExitedZero /\ ParsesTo(reply.child.stdout) = {JObj("Error" :> JStr("boom"))}) =>
              reply.value =
                 {IF reply.op = "view"
                  THEN [returnValues |-> JObj("Error" :> JStr("boom")),
                        raw |-> reply.child.stdout]
                  ELSE [data |-> JObj("Error" :> JStr("boom")), raw |-> reply.child.stdout]}

C38_Witness ==
    /\ RepliedTo({"view"})
    /\ ExitedZero
    /\ \E v \in reply.value : v.returnValues = JObj("Error" :> JStr("boom"))

\* C39: parseJsonOutput tries the whole trimmed stdout and the text from its
\* earliest `{` or `[`, and nothing else: when a line of log text that holds a
\* bracket comes before the payload it throws CliParseError with the trimmed
\* stdout, also when the payload is a valid envelope.
C39_NoRetryFromLaterDelimiter ==
    (reply.op = "parseJsonOutput" /\ reply.settled /\ reply.stdout.prefix = "bracketed") =>
        /\ reply.value = {}
        /\ reply.thrown = {[name |-> "CliParseError",
                            rawOutput |-> [reply.stdout EXCEPT !.ws = FALSE]]}

C39_Witness ==
    /\ reply.op = "parseJsonOutput"
    /\ reply.settled
    /\ reply.stdout.prefix = "bracketed"
    /\ reply.stdout.payload = JObj("Result" :> JArr(<<JStr("100")>>))
    /\ \E e \in reply.thrown : e.name = "CliParseError"
====
